---- MODULE Spec2Model ----
(***************************************************************************)
(* Model of backend/main.py: the FastAPI image analysis service.           *)
(*                                                                         *)
(* The process holds three globals (model, mongo_client, db) set by the    *)
(* startup event.  Every request handler is a coroutine of one event loop: *)
(* a handler runs without interruption until it reaches an `await`, and    *)
(* other handlers run only while it is suspended there.  analyze_image is  *)
(* modelled statement block by statement block (Step), and one event loop  *)
(* turn runs a handler from where it is to its next await (Run).           *)
(*                                                                         *)
(* The vision model is external: what a call to it returns or raises is an *)
(* input of the step that makes the call.  The document store is external  *)
(* and works on its own: it applies an insert handed to it (StoreInsert)   *)
(* or runs a query (StoreFind) in a step of its own.  An await on the      *)
(* store returns only after the store has done its part; it may raise at   *)
(* any time (an error, a timeout, a lost reply), whether the store has     *)
(* done its part, has not, or will do it later.                            *)
(* The wall clock moves between turns (Tick) and inside a turn, between    *)
(* two readings of datetime.now().                                         *)
(***************************************************************************)
EXTENDS Integers, Sequences, FiniteSets, TLC

\* ------------------------------------------------------------------ bounds
\* Number of POST /analyze requests in one run.
MaxRequests == 2
\* Last reading of the wall clock, in units of the store's resolution.
MaxClock == 1
\* Number of GET /history requests in flight together.
MaxHistory == 2
\* Number of requests a run holds together: the POST /analyze requests that
\* have arrived and the GET /history requests in flight.
MaxLoad == 3

\* --------------------------------------------------------- program constants
HTTP_OK == 200
HTTP_BAD_REQUEST == 400
HTTP_SERVER_ERROR == 500

Requests == 1..MaxRequests

\* ------------------------------------------------------------------ inputs
\* The multipart form fields image.filename and prompt.
Forms == {[filename |-> "a.png", prompt |-> "what is it"],
          [filename |-> "b.psd", prompt |-> "how many"]}
\* The handler copies filename and prompt and never inspects them, so
\* exchanging the two forms maps every behaviour to a behaviour. One form is
\* enough for request 1; the later requests send the same form or the other.
FormsOf(r) ==
    IF r = 1 THEN {[filename |-> "a.png", prompt |-> "what is it"]} ELSE Forms
\* What the uploaded file holds: a file whose read() raises, bytes PIL cannot
\* decode, or an image with the format and mode PIL reports for it.
Images == {[format |-> "PNG", mode |-> "RGBA"], [format |-> "PSD", mode |-> "RGB"]}
Unreadable == [format |-> "unreadable", mode |-> "-"]
Corrupt == [format |-> "corrupt", mode |-> "-"]
Uploads == {Unreadable, Corrupt} \cup Images
\* Formats PIL can open but has no save handler for.
ReadOnlyFormats == {"PSD"}
\* What model.caption / model.query do: raise, return a falsy result, or
\* return a result holding a text.
CaptionOutcomes == {"raise", "none", "a cat"}
QueryOutcomes == {"raise", "none", "yes"}
\* What an await on the store does: it returns, or it raises.
InsertOutcomes == {"ok", "error"}
FindOutcomes == {"ok", "error"}
\* How far the clock moves between two readings in one turn.
Elapsed == 0..MaxClock
\* The limit query parameter of GET /history: a negative one, zero, and a
\* positive one that some contents of the collection exceed and some do not.
Limits == {-1, 0, 1}

VARIABLES
    phase,         \* "imported" | "serving"
    model,         \* global model: "None" | "loaded"
    mongo_client,  \* global mongo_client: "None" | "client"
    db,            \* global db: "None" | "database"
    now,           \* wall clock
    task,          \* task[r]: the frame of the r-th analyze_image coroutine
    store,         \* the image_analysis collection, in insertion order
    calls,         \* calls made to the model and to insert_one, in order
    inflight,      \* inflight[r]: the write of request r the store has been
                   \* handed and has not applied (NoDoc if there is none)
    hist,          \* the frames of the get_history coroutines in flight, in
                   \* their order of arrival
    response       \* the HTTP response the last step produced, if any

vars == <<phase, model, mongo_client, db, now, task, store, calls, inflight,
          hist, response>>

\* ----------------------------------------------------------------- helpers
Min(a, b) == IF a < b THEN a ELSE b
Abs(n) == IF n < 0 THEN -n ELSE n

\* A Python dict with string keys and string values.
EmptyDict == [k \in {} |-> ""]
Put(d, k, v) == [x \in (DOMAIN d) \cup {k} |-> IF x = k THEN v ELSE d[x]]

\* str(doc["_id"]) and datetime.isoformat(): the value in its string form.
Str(oid) == [str |-> oid]
IsoFormat(t) == [iso |-> t]
\* base64.b64encode(bytes).decode('utf-8')
B64Encode(bytes) == [b64 |-> bytes]

NoResponse == [endpoint |-> "none"]
NoDoc == [timestamp |-> -1]

\* The frame of a coroutine that has not started or has returned.
IdleFrame ==
    [pc |-> "idle", filename |-> "", prompt |-> "", upload |-> Corrupt,
     start_time |-> -1, img |-> Corrupt, analysis_results |-> EmptyDict,
     process_time |-> -1, mongo_doc |-> NoDoc,
     caption_result |-> "-", query_result |-> "-",
     persisted |-> "-"]
ClosedFrame == [IdleFrame EXCEPT !.pc = "closed"]

\* The frame of a get_history coroutine suspended at line 185.  query is
\* the state of the cursor's find ("pending" | "done"), found the batch the
\* store answered with, seen the number of documents the collection held
\* when the store ran the query.
HistoryFrame(limit) ==
    [pc |-> "find", limit |-> limit, query |-> "pending", found |-> <<>>, seen |-> 0]
\* The frames in flight without the h-th.
Without(frames, h) ==
    [i \in 1..(Len(frames) - 1) |-> IF i < h THEN frames[i] ELSE frames[i + 1]]

\* ------------------------------------------------- the world a handler sees
\* What one event loop turn reads and writes; out is the response it sends.
World == [task |-> task, store |-> store, calls |-> calls, now |-> now,
          inflight |-> inflight,
          out |-> NoResponse]

\* What the external calls of one turn do and how long the turn takes (each
\* used only if the call or the clock reading is reached): inference_time is
\* what passes up to the reading at line 134, encode_time from there to the
\* reading at line 146, insert what the await of insert_one does.  The first
\* turn of a handler reaches none of them; the turn resumed at the await of
\* insert_one reaches only the await's outcome, and a turn that reaches the
\* model calls ends at that await.  When the caption call raises no query
\* call is made, so that case has one outcome.
Outcomes(pc) ==
    IF pc = "start"
    THEN {[caption |-> "raise", query |-> "raise",
           inference_time |-> 0, encode_time |-> 0, insert |-> "error"]}
    ELSE IF pc = "insert"
    THEN [caption : {"raise"}, query : {"raise"},
          inference_time : {0}, encode_time : {0}, insert : InsertOutcomes]
    ELSE {o \in [caption : CaptionOutcomes, query : QueryOutcomes,
                 inference_time : Elapsed, encode_time : Elapsed,
                 insert : {"error"}] :
             /\ o.caption = "raise" => o.query = "raise"
             /\ now + o.inference_time + o.encode_time <= MaxClock}

Goto(w, r, label) == [w EXCEPT !.task[r].pc = label]

\* raise HTTPException(status_code, detail)
HTTPException(status_code, detail) == [status_code |-> status_code, detail |-> detail]
\* JSONResponse(content): status code 200
JSONResponse(content) == [status_code |-> HTTP_OK, content |-> content]

\* The handler returns or raises: the response goes out and the frame is gone.
\* The response keeps the frame as it was on return, for inspection.
Return(w, r, http) ==
    [w EXCEPT !.task[r] = ClosedFrame,
              !.out = [endpoint |-> "analyze", req |-> r, frame |-> w.task[r],
                       http |-> http]]

\* Mutant of ModelNotInitialized: the model check is missing.
ModelCheckSkipped == FALSE

\* Line 100: model is None.
ModelNotInitialized == model = "None"

\* Lines 97-102: start_time, then the model check.
StartStep(w, r) ==
    LET w1 == [w EXCEPT !.task[r].start_time = w.now]
    IN IF ModelNotInitialized
       THEN Return(w1, r, HTTPException(HTTP_SERVER_ERROR,
                            "Model not initialized. Please try again later."))
       ELSE Goto(w1, r, "read")

\* Line 106, resumed: contents = await image.read(); a failure is not an
\* HTTPException and reaches the last handler, lines 170-172.
ReadStep(w, r) ==
    IF w.task[r].upload = Unreadable
    THEN Return(w, r, HTTPException(HTTP_SERVER_ERROR, "read failed"))
    ELSE Goto(w, r, "decode")

\* Lines 109-112 on a decoded image: thumbnail keeps format and mode,
\* convert('RGB') returns a new image, whose format is None.
Normalize(im) ==
    IF im.mode # "RGB" THEN [format |-> "None", mode |-> "RGB"] ELSE im

\* Mutant of InvalidImage: the HTTPException is not re-raised at 168-169 and
\* the last handler turns it into a 500.
InvalidImageAsServerError(w, r) ==
    Return(w, r, HTTPException(HTTP_SERVER_ERROR, "Invalid image format"))

\* Lines 113-115, re-raised at 168-169.
InvalidImage(w, r) ==
    Return(w, r, HTTPException(HTTP_BAD_REQUEST, "Invalid image format"))

\* Lines 107-115.
DecodeStep(w, r) ==
    IF w.task[r].upload \notin Images
    THEN InvalidImage(w, r)
    ELSE Goto([w EXCEPT !.task[r].img = Normalize(w.task[r].upload)], r, "caption")

\* Lines 130-132: either model call raised; the rest of the try body is skipped.
InferenceError(w, r, what) ==
    Goto([w EXCEPT !.task[r].analysis_results =
                       Put(@, "error", IF what = "caption"
                                       THEN "Analysis partially failed: caption error"
                                       ELSE "Analysis partially failed: query error")],
         r, "timing")

\* Lines 118-124: analysis_results = {}, then model.caption(img, length="short").
CaptionStep(w, r, o) ==
    LET w1 == [w EXCEPT !.task[r].analysis_results = EmptyDict,
                        !.task[r].caption_result = o.caption,
                        !.calls = Append(@, [req |-> r, op |-> "caption"])]
    IN IF o.caption = "raise"
       THEN InferenceError(w1, r, "caption")
       ELSE Goto([w1 EXCEPT !.task[r].analysis_results =
                                Put(@, "short_caption",
                                    IF o.caption # "none" THEN o.caption
                                    ELSE "Caption generation failed")],
                 r, "query")

\* Lines 127-128: model.query(img, prompt, max_new_tokens=max_new_tokens).
QueryStep(w, r, o) ==
    LET w1 == [w EXCEPT !.task[r].query_result = o.query,
                        !.calls = Append(@, [req |-> r, op |-> "query"])]
    IN IF o.query = "raise"
       THEN InferenceError(w1, r, "query")
       ELSE Goto([w1 EXCEPT !.task[r].analysis_results =
                                Put(@, "prompt_response",
                                    IF o.query # "none" THEN o.query
                                    ELSE "Query processing failed")],
                 r, "timing")

\* Line 134: datetime.now() read after the model calls.
TimingStep(w, r, o) ==
    LET t == w.now + o.inference_time
    IN Goto([w EXCEPT !.now = t,
                      !.task[r].process_time = t - w.task[r].start_time],
            r, "encode")

\* Mutant of StorageError: the storage error is not caught at 156 and reaches
\* the last handler.
StorageErrorFatal(w, r, why) ==
    Return([w EXCEPT !.task[r].persisted = why], r,
           HTTPException(HTTP_SERVER_ERROR, why))

\* Lines 156-158: the error is logged and the handler goes on to respond.
StorageError(w, r, why) ==
    Goto([w EXCEPT !.task[r].persisted = why], r, "respond")

\* Line 141: img.save(buf, format=img.format or 'JPEG').
SaveFormat(im) == IF im.format = "None" THEN "JPEG" ELSE im.format

\* Lines 145-152; timestamp is a reading of datetime.now() of its own.
MongoDoc(w, r, img_base64) ==
    [timestamp |-> w.now,
     filename |-> w.task[r].filename,
     prompt |-> w.task[r].prompt,
     analysis_results |-> w.task[r].analysis_results,
     processing_time |-> w.task[r].process_time,
     image_data |-> img_base64]

\* ObjectId(): a value no earlier call produced (here the position of the
\* insert_one call among all calls).
NewObjectId(w) == Len(w.calls) + 1

\* insert_one gives the document it is handed an _id.
WithId(doc, oid) ==
    [_id |-> oid,
     timestamp |-> doc.timestamp,
     filename |-> doc.filename,
     prompt |-> doc.prompt,
     analysis_results |-> doc.analysis_results,
     processing_time |-> doc.processing_time,
     image_data |-> doc.image_data]

\* Lines 138-154 up to the await: encode, build mongo_doc, call insert_one,
\* which hands the write to the store.  db[COLLECTION_NAME] raises when db
\* is None.
EncodeStep(w, r, o) ==
    LET im == w.task[r].img
        w1 == [w EXCEPT !.now = @ + o.encode_time]
    IN IF SaveFormat(im) \in ReadOnlyFormats
       THEN StorageError(w, r, "encode error")
       ELSE LET doc == MongoDoc(w1, r, B64Encode([format |-> SaveFormat(im), image |-> im]))
            IN IF db = "None"
               THEN StorageError([w1 EXCEPT !.task[r].mongo_doc = doc], r, "no database")
               ELSE Goto([w1 EXCEPT !.task[r].mongo_doc = WithId(doc, NewObjectId(w)),
                                    !.inflight[r] = WithId(doc, NewObjectId(w)),
                                    !.calls = Append(@, [req |-> r, op |-> "insert_one"])],
                         r, "insert")

\* Mutant of InsertOne: the write is applied twice.
InsertOneTwice(coll, doc) == Append(Append(coll, doc), doc)

\* The store applies an insert: the collection gains the document.
InsertOne(coll, doc) == Append(coll, doc)

\* Line 154, resumed, and 155-158: the await returns, or it raises and the
\* error is logged.  The handler does not look at the store.
InsertStep(w, r, o) ==
    IF o.insert = "ok"
    THEN Goto([w EXCEPT !.task[r].persisted = "stored"], r, "respond")
    ELSE StorageError(w, r, "insert error")

\* Mutant of RespondStep: processing_time is measured again for the response.
RespondStepLate(w, r) ==
    Return(w, r, JSONResponse([status |-> "success",
                               analysis |-> w.task[r].analysis_results,
                               processing_time |-> w.now - w.task[r].start_time]))

\* Lines 160-166.
RespondStep(w, r) ==
    Return(w, r, JSONResponse([status |-> "success",
                               analysis |-> w.task[r].analysis_results,
                               processing_time |-> w.task[r].process_time]))

\* One statement block of analyze_image.
Step(w, r, o) ==
    LET pc == w.task[r].pc
    IN CASE pc = "start" -> StartStep(w, r)
         [] pc = "read" -> ReadStep(w, r)
         [] pc = "decode" -> DecodeStep(w, r)
         [] pc = "caption" -> CaptionStep(w, r, o)
         [] pc = "query" -> QueryStep(w, r, o)
         [] pc = "timing" -> TimingStep(w, r, o)
         [] pc = "encode" -> EncodeStep(w, r, o)
         [] pc = "insert" -> InsertStep(w, r, o)
         [] pc = "respond" -> RespondStep(w, r)

\* Mutant of SuspensionPoints: the query call is awaited.
SuspensionPointsInInference == {"read", "query", "insert"}

\* The awaits of analyze_image: image.read() (line 106) and insert_one (154).
SuspensionPoints == {"read", "insert"}

\* One event loop turn of handler r: it runs until it awaits or returns.
RECURSIVE Run(_, _, _)
Run(w, r, o) ==
    LET w1 == Step(w, r, o)
    IN IF w1.task[r].pc \in SuspensionPoints \cup {"closed"}
       THEN w1
       ELSE Run(w1, r, o)

Commit(w) ==
    /\ task' = w.task
    /\ store' = w.store
    /\ calls' = w.calls
    /\ inflight' = w.inflight
    /\ now' = w.now
    /\ response' = w.out

\* The requests the run holds: the POST /analyze requests that have arrived
\* and the GET /history requests in flight.
Load == Cardinality({r \in Requests : task[r].pc # "idle"}) + Len(hist)

\* ------------------------------------------------------------ process start
\* Module level, lines 37-40.
Init ==
    /\ phase = "imported"
    /\ model = "None"
    /\ mongo_client = "None"
    /\ db = "None"
    /\ now = 0
    /\ task = [r \in Requests |-> IdleFrame]
    /\ store = <<>>
    /\ calls = <<>>
    /\ inflight = [r \in Requests |-> NoDoc]
    /\ hist = <<>>
    /\ response = NoResponse

\* Lines 79-83 with 47-77: init_model swallows its failure and leaves model
\* None; init_mongodb re-raises its own.  The client constructor may raise
\* (the globals stay None) or create_index may (both globals are already
\* set).  What the host does with a startup event that raised is the host's
\* choice; the handlers below are written for every value of the globals, and
\* requests are served in all of them.
StartupEvent(model_loads, mongo) ==
    /\ phase = "imported"
    /\ model' = IF model_loads THEN "loaded" ELSE "None"
    /\ mongo_client' = IF mongo = "no client" THEN "None" ELSE "client"
    /\ db' = IF mongo = "no client" THEN "None" ELSE "database"
    /\ phase' = "serving"
    /\ UNCHANGED <<now, task, store, calls, inflight, hist, response>>

\* The application is served without its lifespan events (a server run with
\* lifespan off, a test client used without entering it): the globals keep
\* their module-level values.
ServeWithoutStartup ==
    /\ phase = "imported"
    /\ phase' = "serving"
    /\ UNCHANGED <<model, mongo_client, db, now, task, store, calls, inflight, hist, response>>

\* Time passes between two turns of the event loop.
Tick ==
    /\ now < MaxClock
    /\ now' = now + 1
    /\ response' = NoResponse
    /\ UNCHANGED <<phase, model, mongo_client, db, task, store, calls, inflight, hist>>

\* ------------------------------------------------------------ POST /analyze
\* A request arrives: the handler starts and runs to its first await.
\* Requests are numbered in their order of arrival.
Analyze(r, form, upload) ==
    /\ phase = "serving"
    /\ Load < MaxLoad
    /\ task[r].pc = "idle"
    /\ \A q \in Requests : q < r => task[q].pc # "idle"
    /\ \E o \in Outcomes("start") :
          Commit(Run([World EXCEPT !.task[r] =
                          [IdleFrame EXCEPT !.pc = "start",
                                            !.filename = form.filename,
                                            !.prompt = form.prompt,
                                            !.upload = upload]],
                     r, o))
    /\ UNCHANGED <<phase, model, mongo_client, db, hist>>

\* Line 154, on the store's side: the store applies a write it was handed.
\* The handler that made the call may still be suspended at its await, or
\* its await may already have raised (a timeout, a lost reply) and the
\* request may already be answered.  A write the store never applies stays
\* in flight.
StoreInsert(r) ==
    /\ inflight[r] # NoDoc
    /\ store' = InsertOne(store, inflight[r])
    /\ inflight' = [inflight EXCEPT ![r] = NoDoc]
    /\ response' = NoResponse
    /\ UNCHANGED <<phase, model, mongo_client, db, now, task, calls, hist>>

\* The event loop resumes a suspended handler: it runs to its next await or
\* to its return.  The await of insert_one returns only when the store has
\* applied the write; it may raise whatever the store has done.
Resume(r) ==
    /\ task[r].pc \in SuspensionPoints
    /\ \E o \in Outcomes(task[r].pc) :
          /\ (task[r].pc = "insert" /\ o.insert = "ok") => inflight[r] = NoDoc
          /\ Commit(Run(World, r, o))
    /\ UNCHANGED <<phase, model, mongo_client, db, hist>>

\* -------------------------------------------------------------- GET /history
\* The projection {"image_data": 0}.
Projection(doc) ==
    [_id |-> doc._id,
     timestamp |-> doc.timestamp,
     filename |-> doc.filename,
     prompt |-> doc.prompt,
     analysis_results |-> doc.analysis_results,
     processing_time |-> doc.processing_time]

Orders(n) ==
    {p \in [1..n -> 1..n] : \A i, j \in 1..n : p[i] = p[j] => i = j}

\* Mutant of SortsBefore: sort("timestamp", 1).
SortsAscending(a, b) == a <= b

\* Whether timestamp a may come before timestamp b under sort("timestamp", -1).
SortsBefore(a, b) == a >= b

\* sort("timestamp", -1): every order of the collection's documents with the
\* timestamps descending; documents with equal timestamps come in an order
\* the store chooses.
Sorted(coll) ==
    {[i \in 1..Len(coll) |-> coll[p[i]]] : p \in
        {q \in Orders(Len(coll)) :
            \A i, j \in 1..Len(coll) :
                i < j => SortsBefore(coll[q[i]].timestamp, coll[q[j]].timestamp)}}

\* cursor.limit(n): 0 is no limit, and the driver sends a negative n as
\* its absolute value (in a single batch).
Limit(docs, n) ==
    IF n = 0 THEN docs ELSE SubSeq(docs, 1, Min(Abs(n), Len(docs)))

\* Lines 186-187.
Convert(doc) ==
    [doc EXCEPT !._id = Str(doc._id), !.timestamp = IsoFormat(doc.timestamp)]

\* Lines 191-193.
HistoryFailed(limit) ==
    [endpoint |-> "history", limit |-> limit, seen |-> 0,
     http |-> HTTPException(HTTP_SERVER_ERROR, "Failed to retrieve history")]

\* Lines 176-185, up to the await: a request arrives, the handler builds the
\* cursor and starts to iterate it, which sends the query and suspends the
\* handler.  db[COLLECTION_NAME] raises when db is None.  Other get_history
\* coroutines may be suspended at the same await.
GetHistory(limit) ==
    /\ phase = "serving"
    /\ Len(hist) < MaxHistory
    /\ Load < MaxLoad
    /\ IF db = "None"
       THEN /\ response' = HistoryFailed(limit)
            /\ hist' = hist
       ELSE /\ response' = NoResponse
            /\ hist' = Append(hist, HistoryFrame(limit))
    /\ UNCHANGED <<phase, model, mongo_client, db, now, task, store, calls, inflight>>

\* Lines 179-182, while the h-th handler in flight is suspended: the store
\* runs its query on the collection as it is now.
StoreFind(h) ==
    /\ h \in 1..Len(hist)
    /\ hist[h].query = "pending"
    /\ \E docs \in Sorted(store) :
          hist' = [hist EXCEPT ![h].query = "done",
                               ![h].found = Limit([i \in 1..Len(docs) |->
                                                      Projection(docs[i])],
                                                  hist[h].limit),
                               ![h].seen = Len(store)]
    /\ response' = NoResponse
    /\ UNCHANGED <<phase, model, mongo_client, db, now, task, store, calls, inflight>>

\* Lines 185-193, the h-th handler in flight resumed: the iteration yields
\* the batch the store answered with, the loop body runs on every document
\* and the handler returns; or the iteration raises, whether the store ran
\* the query or not.
ResumeHistory(h, outcome) ==
    /\ h \in 1..Len(hist)
    /\ outcome = "ok" => hist[h].query = "done"
    /\ response' =
          IF outcome = "ok"
          THEN [endpoint |-> "history", limit |-> hist[h].limit, seen |-> hist[h].seen,
                http |-> JSONResponse(
                    [history |-> [i \in 1..Len(hist[h].found) |->
                                     Convert(hist[h].found[i])]])]
          ELSE HistoryFailed(hist[h].limit)
    /\ hist' = Without(hist, h)
    /\ UNCHANGED <<phase, model, mongo_client, db, now, task, store, calls, inflight>>

\* --------------------------------------------------------------- GET /health
\* Mutant of HealthStatus: "or" for "and".
HealthStatusEither ==
    IF model # "None" \/ mongo_client # "None" THEN "healthy" ELSE "degraded"

\* Line 200.
HealthStatus ==
    IF model # "None" /\ mongo_client # "None" THEN "healthy" ELSE "degraded"

\* Lines 196-208 (the fields that depend on the globals).
HealthCheck ==
    /\ phase = "serving"
    /\ response' =
          [endpoint |-> "health",
           http |-> [status_code |-> HTTP_OK,
                     content |-> [status |-> HealthStatus,
                                  model_loaded |-> (model # "None"),
                                  mongodb_status |-> IF mongo_client # "None"
                                                     THEN "connected"
                                                     ELSE "disconnected"]]]
    /\ UNCHANGED <<phase, model, mongo_client, db, now, task, store, calls, inflight, hist>>

Next ==
    \/ \E model_loads \in BOOLEAN, mongo \in {"ok", "no client", "no index"} :
          StartupEvent(model_loads, mongo)
    \/ ServeWithoutStartup
    \/ Tick
    \/ \E r \in Requests, upload \in Uploads :
          \E form \in FormsOf(r) : Analyze(r, form, upload)
    \/ \E r \in Requests : StoreInsert(r)
    \/ \E r \in Requests : Resume(r)
    \/ \E limit \in Limits : GetHistory(limit)
    \/ \E h \in 1..MaxHistory : StoreFind(h)
    \/ \E h \in 1..MaxHistory, outcome \in FindOutcomes : ResumeHistory(h, outcome)
    \/ HealthCheck

Spec == Init /\ [][Next]_vars

\* ===================================================================== claims
IsAnalyze == response.endpoint = "analyze"
IsHistory == response.endpoint = "history"
IsHealth == response.endpoint = "health"
\* The calls request r made.
CallsBy(r) == {i \in 1..Len(calls) : calls[i].req = r}
InsertCalls == {i \in 1..Len(calls) : calls[i].op = "insert_one"}
\* The request whose handler returned passed the model check and validation.
ReachedInference == IsAnalyze /\ model # "None" /\ response.frame.upload \in Images

\* What lines 118-132 leave in analysis_results when the caption call does c
\* and the query call, if it is made, does q.
Inferred(c, q) ==
    LET o == [caption |-> c, query |-> q, inference_time |-> 0, encode_time |-> 0,
              insert |-> "error"]
        w0 == [World EXCEPT !.task = [x \in Requests |-> [IdleFrame EXCEPT !.pc = "caption"]]]
        w1 == CaptionStep(w0, 1, o)
        w2 == IF w1.task[1].pc = "query" THEN QueryStep(w1, 1, o) ELSE w1
    IN w2.task[1].analysis_results

\* C1 as stated: when the caption call raises, the query call is still made,
\* the response is HTTP 200, short_caption is the failure placeholder and
\* prompt_response is the answer of a query that succeeded.
C1_CaptionFailureStillQueries ==
    (ReachedInference /\ response.frame.caption_result = "raise") =>
        /\ response.http.status_code = HTTP_OK
        /\ \E i \in CallsBy(response.req) : calls[i].op = "query"
        /\ "short_caption" \in DOMAIN response.http.content.analysis
        /\ response.http.content.analysis["short_caption"] = "Caption generation failed"
        /\ response.frame.query_result \in QueryOutcomes \ {"raise", "none"} =>
              /\ "prompt_response" \in DOMAIN response.http.content.analysis
              /\ response.http.content.analysis["prompt_response"] = response.frame.query_result

\* C2 as stated: in every HTTP 200 response of a request that reached
\* inference both short_caption and prompt_response are present; the field of
\* a call that raised is its failure placeholder and the error note is
\* present; the field of a call that returned a text is that text.
C2_FailedCallLeavesPlaceholder ==
    ReachedInference =>
        LET a == response.http.content.analysis
            f == response.frame
        IN /\ response.http.status_code = HTTP_OK
           /\ {"short_caption", "prompt_response"} \subseteq DOMAIN a
           /\ f.caption_result = "raise" =>
                 a["short_caption"] = "Caption generation failed" /\ "error" \in DOMAIN a
           /\ f.query_result = "raise" =>
                 a["prompt_response"] = "Query processing failed" /\ "error" \in DOMAIN a
           /\ f.caption_result \in CaptionOutcomes \ {"raise", "none"} =>
                 a["short_caption"] = f.caption_result
           /\ f.query_result \in QueryOutcomes \ {"raise", "none"} =>
                 a["prompt_response"] = f.query_result

\* C3: a request that passed the model check and image validation is answered
\* with HTTP 200, and the analysis and processing_time of the response are
\* those the inference step and line 134 produced, whether the store write
\* succeeded, the image could not be encoded, insert_one failed or db is None.
C3_PersistenceNeverChangesResponse ==
    ReachedInference =>
        /\ response.http.status_code = HTTP_OK
        /\ response.http.content.status = "success"
        /\ response.http.content.analysis =
              Inferred(response.frame.caption_result, response.frame.query_result)
        /\ response.http.content.processing_time = response.frame.process_time
        /\ response.frame.persisted \in
              {"stored", "encode error", "insert error", "no database"}

\* C3's case: insert_one failed, and the response is the full analysis.
C3_Witness ==
    /\ ReachedInference
    /\ response.frame.persisted = "insert error"
    /\ response.http.status_code = HTTP_OK
    /\ "prompt_response" \in DOMAIN response.http.content.analysis

\* C4 as stated: undecodable image bytes give HTTP 400 whatever the globals
\* are, and the request makes no model call and no store write.
C4_UndecodableAlways400 ==
    (IsAnalyze /\ response.frame.upload = Corrupt) =>
        /\ response.http.status_code = HTTP_BAD_REQUEST
        /\ CallsBy(response.req) = {}

\* C4 amended: undecodable image bytes give HTTP 400 when the model is loaded
\* and HTTP 500 when it is not (the model check comes first), whatever the
\* store globals are; either way the request makes no model call and no
\* store write.
C4_UndecodableNoCalls ==
    (IsAnalyze /\ response.frame.upload = Corrupt) =>
        /\ response.http.status_code =
              (IF model = "None" THEN HTTP_SERVER_ERROR ELSE HTTP_BAD_REQUEST)
        /\ CallsBy(response.req) = {}
        /\ response.frame.persisted = "-"
        /\ response.frame.mongo_doc = NoDoc
        /\ \A i \in 1..Len(store) : calls[store[i]._id].req # response.req

\* C4's case: an undecodable upload answered 400 while another request has
\* made calls and stored a record.
C4_Witness ==
    /\ IsAnalyze
    /\ response.frame.upload = Corrupt
    /\ response.http.status_code = HTTP_BAD_REQUEST
    /\ Len(store) > 0

\* The timestamps of a history, as the store holds them.
HistoryTimestamps == [i \in 1..Len(response.http.content.history) |->
                         response.http.content.history[i].timestamp.iso]
HistoryIds == {response.http.content.history[i]._id.str :
                  i \in 1..Len(response.http.content.history)}

\* C5 as stated (for limits N >= 0): GET /history returns at most N records,
\* strictly descending by timestamp, none holding image_data.
C5_AtMostLimitStrictlyDescending ==
    (IsHistory /\ response.http.status_code = HTTP_OK /\ response.limit >= 0) =>
        LET h == response.http.content.history
        IN /\ Len(h) <= response.limit
           /\ \A i, j \in 1..Len(h) : i < j => HistoryTimestamps[i] > HistoryTimestamps[j]
           /\ \A i \in 1..Len(h) : "image_data" \notin DOMAIN h[i]

\* The records the collection held when the store ran the query of the
\* history request being answered (the store only appends).
Queried == SubSeq(store, 1, response.seen)

\* C5 amended: a GET /history that succeeds answers from the collection as
\* it was when the store ran the query, which records written before the
\* response is sent may have extended.  Of those records it returns
\* min(|N|, size) for a limit N # 0 and every one for N = 0; they are distinct
\* records without image_data, _id and timestamp in string form, in
\* non-increasing order of timestamp, and no queried record left out is more
\* recent than one returned.
C5_MostRecentNonIncreasing ==
    (IsHistory /\ response.http.status_code = HTTP_OK) =>
        LET h == response.http.content.history
            n == response.limit
        IN /\ response.seen <= Len(store)
           /\ Len(h) = (IF n = 0 THEN Len(Queried) ELSE Min(Abs(n), Len(Queried)))
           /\ \A i, j \in 1..Len(h) : i < j => HistoryTimestamps[i] >= HistoryTimestamps[j]
           /\ \A i \in 1..Len(h) :
                 /\ "image_data" \notin DOMAIN h[i]
                 /\ \E k \in 1..Len(Queried) : h[i] = Convert(Projection(Queried[k]))
           /\ Cardinality(HistoryIds) = Len(h)
           /\ \A k \in 1..Len(Queried) :
                 Queried[k]._id \notin HistoryIds =>
                     \A i \in 1..Len(h) : Queried[k].timestamp <= HistoryTimestamps[i]

\* C5's case: the query ran on two records, the older one inserted last,
\* with a limit of 1.
C5_Witness ==
    /\ IsHistory
    /\ response.http.status_code = HTTP_OK
    /\ response.limit = 1
    /\ response.seen = 2
    /\ store[1].timestamp > store[2].timestamp
    /\ Len(response.http.content.history) = 1

\* The store holds at most one record per insert_one call, a request calls
\* insert_one at most once, and the records' _ids are those of distinct calls.
AtMostOncePerRequest ==
    /\ Len(store) <= Cardinality(InsertCalls)
    /\ \A r \in Requests : Cardinality(CallsBy(r) \cap InsertCalls) <= 1
    /\ \A i \in 1..Len(store) : store[i]._id \in InsertCalls
    /\ \A i, j \in 1..Len(store) : store[i]._id = store[j]._id => i = j

\* C6: a record is written at most once per request (no retry after a failed
\* write), and no step of the service changes or removes a record the store
\* holds: every step leaves the store as it was or appends to it.
C6_AppendOnlyAtMostOnce ==
    /\ []AtMostOncePerRequest
    /\ [][/\ Len(store') >= Len(store)
          /\ SubSeq(store', 1, Len(store)) = store]_vars

\* C6's case: a request whose insert_one failed has been answered, and the
\* store holds a record of another request.
C6_Witness ==
    /\ IsAnalyze
    /\ response.frame.persisted = "insert error"
    /\ Len(store) = 1
    /\ Cardinality(InsertCalls) = 2

\* C7: with model None a request is answered HTTP 500 "Model not
\* initialized" and makes no call at all; a request answered 500 met model
\* None or an upload whose read failed; a request that passed the model check
\* and validation is never aborted by the inference step.
C7_ModelCheckOnly500 ==
    /\ model = "None" =>
          /\ calls = <<>>
          /\ store = <<>>
          /\ \A r \in Requests : task[r].pc \in {"idle", "closed"}
    /\ IsAnalyze =>
          /\ model = "None" =>
                response.http = HTTPException(HTTP_SERVER_ERROR,
                                    "Model not initialized. Please try again later.")
          /\ response.http.status_code = HTTP_SERVER_ERROR =>
                model = "None" \/ response.frame.upload = Unreadable
          /\ (model # "None" /\ response.frame.upload \in Images) =>
                /\ response.http.status_code = HTTP_OK
                /\ response.frame.caption_result # "-"

\* C7's case: a decodable image sent while model is None and the store is up.
C7_Witness ==
    /\ IsAnalyze
    /\ model = "None"
    /\ db # "None"
    /\ response.frame.upload \in Images
    /\ response.http.status_code = HTTP_SERVER_ERROR

\* What /health reports agrees with the globals.
HealthAgrees ==
    IsHealth =>
        LET c == response.http.content
        IN /\ response.http.status_code = HTTP_OK
           /\ c.status \in {"healthy", "degraded"}
           /\ c.status = "healthy" <=> (model # "None" /\ mongo_client # "None")
           /\ c.model_loaded <=> model # "None"
           /\ c.mongodb_status \in {"connected", "disconnected"}
           /\ c.mongodb_status = "connected" <=> mongo_client # "None"

\* C8: GET /health answers 200 with status "healthy" exactly when model and
\* mongo_client are both set and "degraded" otherwise, model_loaded and
\* mongodb_status agree with the globals, and the request changes neither
\* the globals nor the store.
C8_HealthReportsGlobals ==
    /\ []HealthAgrees
    /\ [][response'.endpoint = "health" =>
              UNCHANGED <<model, mongo_client, db, store, task, calls,
                          inflight, hist>>]_vars

\* C8's case: one global set, the other not.
C8_Witness ==
    /\ IsHealth
    /\ model = "None"
    /\ mongo_client # "None"
    /\ response.http.content.status = "degraded"

\* C9: handlers are suspended only at the awaits of the upload read, of the
\* store write and of the store read, never inside the inference step; so
\* every query call comes directly after the caption call of the same
\* request, with no call of another request in between.
C9_InferenceDoesNotYield ==
    /\ \A r \in Requests : task[r].pc \in {"idle", "read", "insert", "closed"}
    /\ \A h \in 1..Len(hist) : hist[h].pc = "find"
    /\ \A i \in 1..Len(calls) :
          calls[i].op = "query" =>
              /\ i > 1
              /\ calls[i - 1] = [req |-> calls[i].req, op |-> "caption"]

\* C9's case: request 2 arrived after request 1 and ran its inference first,
\* so both were in flight together, while a history request awaits its query.
C9_Witness ==
    /\ Len(hist) > 0
    /\ Len(calls) >= 4
    /\ calls[1] = [req |-> 2, op |-> "caption"]
    /\ calls[2] = [req |-> 2, op |-> "query"]
    /\ \E i \in 3..Len(calls) : calls[i] = [req |-> 1, op |-> "query"]

\* The records of the store that request r wrote.
RecordsOf(r) == {i \in 1..Len(store) : calls[store[i]._id].req = r}
\* The request being answered made its insert_one call.
InsertCalled == IsAnalyze /\ response.frame.persisted \in {"stored", "insert error"}
\* Every insert_one call directly follows a model call of the same request.
InsertAfterInference ==
    \A j \in InsertCalls :
        /\ j > 1
        /\ calls[j - 1].req = calls[j].req
        /\ calls[j - 1].op \in {"caption", "query"}

\* C10 as stated: the record a request stored carries that request's
\* filename and prompt and the analysis and processing_time of its response;
\* the write is attempted only after the request's inference, and when the
\* response is produced the write has completed or failed: no write of the
\* request is in flight, and its record is in the store exactly when the
\* handler found the write to have succeeded.
C10_RecordMatchesResponse ==
    /\ (IsAnalyze /\ response.frame.persisted = "stored") =>
          /\ Cardinality(RecordsOf(response.req)) = 1
          /\ \A i \in RecordsOf(response.req) :
                /\ store[i].filename = response.frame.filename
                /\ store[i].prompt = response.frame.prompt
                /\ store[i].analysis_results = response.http.content.analysis
                /\ store[i].processing_time = response.http.content.processing_time
    /\ IsAnalyze =>
          /\ inflight[response.req] = NoDoc
          /\ response.frame.persisted # "stored" => RecordsOf(response.req) = {}
    /\ \A i \in 1..Len(store) : store[i]._id \in InsertCalls
    /\ InsertAfterInference

\* What holds of the records and of the writes in flight in every state.
RecordsConsistent ==
    /\ InsertCalled =>
          LET d == response.frame.mongo_doc
              r == response.req
          IN /\ calls[d._id] = [req |-> r, op |-> "insert_one"]
             /\ d.filename = response.frame.filename
             /\ d.prompt = response.frame.prompt
             /\ d.analysis_results = response.http.content.analysis
             /\ d.processing_time = response.http.content.processing_time
             /\ response.http.status_code = HTTP_OK
             /\ \A i \in RecordsOf(r) : store[i] = d
             /\ Cardinality(RecordsOf(r)) + (IF inflight[r] = NoDoc THEN 0 ELSE 1) = 1
             /\ inflight[r] \in {NoDoc, d}
             /\ response.frame.persisted = "stored" => inflight[r] = NoDoc
    /\ (IsAnalyze /\ ~InsertCalled) =>
          /\ RecordsOf(response.req) = {}
          /\ inflight[response.req] = NoDoc
    /\ \A i \in 1..Len(store) : store[i]._id \in InsertCalls
    /\ \A r \in Requests :
          /\ inflight[r] # NoDoc =>
                /\ task[r].pc \in {"insert", "closed"}
                /\ inflight[r]._id \in InsertCalls
                /\ calls[inflight[r]._id].req = r
                /\ RecordsOf(r) = {}
          /\ task[r].pc = "insert" =>
                /\ inflight[r] \in {NoDoc, task[r].mongo_doc}
                /\ \A i \in RecordsOf(r) : store[i] = task[r].mongo_doc
                /\ Cardinality(RecordsOf(r)) + (IF inflight[r] = NoDoc THEN 0 ELSE 1) = 1
          /\ task[r].pc \in {"idle", "read"} =>
                RecordsOf(r) = {} /\ inflight[r] = NoDoc
    /\ InsertAfterInference

\* A step that changes the store appends the document of one write in flight
\* and takes it out of flight; no other step touches a write in flight.
WritesApplied ==
    /\ store' # store =>
          \E r \in Requests :
              /\ inflight[r] # NoDoc
              /\ store' = Append(store, inflight[r])
              /\ inflight' = [inflight EXCEPT ![r] = NoDoc]
    /\ \A r \in Requests :
          inflight[r] # NoDoc =>
              \/ inflight'[r] = inflight[r]
              \/ inflight'[r] = NoDoc /\ store' = Append(store, inflight[r])

\* C10 amended: every record belongs to exactly one request and carries that
\* request's filename and prompt and the analysis and processing_time of
\* that request's HTTP 200 response; insert_one is called only after the
\* request's own model calls, and its await has returned or raised before
\* the response is produced.  The await returns only after the store has
\* applied the write; when it raises, the request's one record may be
\* absent, already in the store, or appended after the response, and it is
\* the document the handler built.
C10_RecordMatchesAwaitedWrite ==
    /\ []RecordsConsistent
    /\ [][WritesApplied]_vars

\* C10's case: request 1 is answered with its insert_one having raised
\* although the store applied the write; request 2, which arrived later, has
\* stored a record with another analysis and is still suspended at its
\* insert_one.
C10_Witness ==
    /\ IsAnalyze
    /\ response.req = 1
    /\ response.frame.persisted = "insert error"
    /\ Len(store) = 2
    /\ calls[store[1]._id].req = 2
    /\ calls[store[2]._id].req = 1
    /\ task[2].pc = "insert"
    /\ store[1].analysis_results # store[2].analysis_results
    /\ store[1].filename # store[2].filename
    /\ store[2].timestamp > response.frame.start_time + store[2].processing_time

====
